---------------------------- MODULE Spec2Model ----------------------------
(***************************************************************************)
(* The image-classification service of src/main.py with its two           *)
(* collaborators, ModelLoader (src/model_loader.py) and ImagePreprocessor *)
(* (src/preprocessing.py).                                                 *)
(*                                                                         *)
(* Python values are represented as follows.                              *)
(*   - None is the record None; an object is a record of its attributes.  *)
(*   - A dict is the sequence of its <<key, value>> items in insertion    *)
(*     order (Python dicts keep insertion order).                         *)
(*   - A call that may raise returns [raised, msg, val]: raised = TRUE    *)
(*     carries str(e) in msg, raised = FALSE carries the value in val.    *)
(*   - A message built with an f-string is the sequence of its parts.     *)
(*   - A PIL image is [mode, size, color, intact]: an image of one        *)
(*     colour, so that resampling (any filter whose coefficients sum to   *)
(*     one, Lanczos included) yields that colour at every pixel.          *)
(*     intact = FALSE is a file whose header parses (Image.open is lazy)   *)
(*     and whose pixel data cannot be loaded.                              *)
(*   - A numpy array is [shape, dtype, data]; data lists, per element of  *)
(*     the leading axis, the <<r, g, b>> value every pixel of it holds.   *)
(*     A float is the exact fraction [num, den].                          *)
(*   - The timestamp of a response is left out.                           *)
(***************************************************************************)
EXTENDS Integers, Sequences, FiniteSets

VARIABLES
    disk,          \* what lies at settings.MODEL_PATH: the environment
    phase,         \* lifespan: "init" (not started), "up", "failed"
    model_loader,  \* main.py global model_loader
    preprocessor,  \* main.py global preprocessor
    req,           \* the requests in flight: one handler coroutine per id
    call           \* the library call under test in the function-level specs

vars == <<disk, phase, model_loader, preprocessor, req, call>>

-----------------------------------------------------------------------------
(* Bounds of the model *)

MaxMixed == 2      \* longest freely chosen part of a batch
MaxTraffic == 2    \* longest batch of the second, concurrent client
MaxOut == 7        \* longest score vector a model artifact returns (the shortest: 5)
MaxScore == 1      \* scores range over 0..MaxScore
MaxK == 7          \* k ranges over -MaxK..MaxK
MaxImages == 3     \* longest list given to preprocess_batch

(* Program constants *)

MAX_BATCH == 10        \* main.py:225
IMAGE_SIDE == 150      \* main.py:51
PIXEL_MAX == 255       \* preprocessing.py:55

-----------------------------------------------------------------------------
(* Python helpers *)

None == [isNone |-> TRUE]

Ok(v) == [raised |-> FALSE, msg |-> "", val |-> v]

Raise(m) == [raised |-> TRUE, msg |-> m, val |-> None]

Min(a, b) == IF a < b THEN a ELSE b

Max(a, b) == IF a > b THEN a ELSE b

\* seq[:k] of Python: a negative k counts from the end
SlicePrefix(seq, k) ==
    LET stop == IF k < 0 THEN Max(Len(seq) + k, 0) ELSE Min(k, Len(seq))
    IN  SubSeq(seq, 1, stop)

\* zip(a, b): pairs up to the shorter of the two
Zip(a, b) == [j \in 1..Min(Len(a), Len(b)) |-> <<a[j], b[j]>>]

\* the list one insertion step of a stable descending sort by item[2] yields:
\* x goes after every item whose key is not smaller
InsertDesc(sorted, x) ==
    LET before == {j \in 1..Len(sorted) : sorted[j][2] >= x[2]}
        n == Cardinality(before)
    IN  SubSeq(sorted, 1, n) \o <<x>> \o SubSeq(sorted, n + 1, Len(sorted))

RECURSIVE SortedDesc(_)
\* sorted(items, key=lambda x: x[1], reverse=True): stable
SortedDesc(items) ==
    IF items = <<>> THEN <<>>
    ELSE InsertDesc(SortedDesc(SubSeq(items, 1, Len(items) - 1)), items[Len(items)])

\* max(items, key=lambda x: x[1]): the first item of the largest key;
\* ValueError on an empty sequence
MaxItem(items) ==
    IF items = <<>> THEN Raise("max() arg is an empty sequence")
    ELSE Ok(items[CHOOSE j \in 1..Len(items) :
                /\ \A m \in 1..Len(items) : items[m][2] <= items[j][2]
                /\ \A m \in 1..(j - 1) : items[m][2] < items[j][2]])

-----------------------------------------------------------------------------
(* Images and uploads *)

Scale(v) == [num |-> v, den |-> PIXEL_MAX]

ImageA == [mode |-> "RGB", size |-> <<640, 480>>, color |-> <<255, 0, 51>>, intact |-> TRUE]

ImageB == [mode |-> "L", size |-> <<150, 150>>, color |-> <<102>>, intact |-> TRUE]

ImageC == [mode |-> "RGBA", size |-> <<32, 64>>, color |-> <<0, 255, 0, 128>>, intact |-> TRUE]

ImageT == [mode |-> "RGB", size |-> <<640, 480>>, color |-> <<7, 7, 7>>, intact |-> FALSE]

ImageD == [mode |-> "RGB", size |-> <<150, 150>>, color |-> <<0, 0, 0>>, intact |-> TRUE]

Images == {ImageA, ImageB, ImageC, ImageD, ImageT}

\* Image.convert('RGB'): grey is repeated on three channels, alpha is dropped
ConvertRGB(color) == IF Len(color) = 1 THEN <<color[1], color[1], color[1]>>
                     ELSE SubSeq(color, 1, 3)

ImagePreprocessor(target_size) == [target_size |-> target_size]

preprocess(self, image) ==
    IF ~image.intact THEN Raise("image file is truncated")
    ELSE LET rgb == IF image.mode # "RGB" THEN ConvertRGB(image.color) ELSE image.color
             \* resize(target_size): PIL takes (width, height); the array of
             \* the resized image has shape (height, width, 3)
             h == self.target_size[2]
             w == self.target_size[1]
             px == [c \in 1..3 |-> Scale(rgb[c])]
         IN  Ok([shape |-> <<1, h, w, 3>>, dtype |-> "float32", data |-> <<px>>])

\* array[0]
First(array) == [shape |-> Tail(array.shape), dtype |-> array.dtype, data |-> array.data[1]]

\* np.array(list of equally shaped float32 arrays); np.array([]) is the
\* empty float64 vector of shape (0,)
NpArray(list) ==
    IF list = <<>> THEN [shape |-> <<0>>, dtype |-> "float64", data |-> <<>>]
    ELSE [shape |-> <<Len(list)>> \o list[1].shape, dtype |-> list[1].dtype,
          data |-> [j \in 1..Len(list) |-> list[j].data]]

preprocess_batch(self, images) ==
    LET each == [j \in 1..Len(images) |-> preprocess(self, images[j])]
        bad == {j \in 1..Len(images) : each[j].raised}
    IN  IF bad # {} THEN Raise(each[CHOOSE j \in bad : \A m \in bad : j <= m].msg)
        ELSE Ok(NpArray([j \in 1..Len(images) |-> First(each[j].val)]))

-----------------------------------------------------------------------------
(* ModelLoader *)

Classes == <<"buildings", "forest", "glacier", "mountain", "sea", "street">>

PixelOf(image) == [c \in 1..3 |-> Scale(ConvertRGB(image.color)[c])]

Pixels == {PixelOf(image) : image \in Images}

\* A keras model is what its forward pass does with one input: the score
\* vector it returns, or the exception it raises.  Landscape is the artifact
\* the server is run with; it returns a tie for ImageB and fails on ImageC.
Landscape ==
    [respond |-> [px \in Pixels |->
        IF px = PixelOf(ImageC) THEN Raise("Graph execution error")
        ELSE IF px = PixelOf(ImageB) THEN Ok(<<30, 30, 10, 10, 10, 10>>)
        ELSE Ok(<<5, 10, 60, 10, 10, 5>>)]]

\* the artifact whose forward pass returns probs for every input
ArtifactReturning(probs) == [respond |-> [px \in Pixels |-> Ok(probs)]]

\* self.model.predict(image, verbose=0): one score vector per element of the
\* leading axis
Forward(model, image) ==
    LET each == [j \in 1..Len(image.data) |-> model.respond[image.data[j]]]
        bad == {j \in 1..Len(image.data) : each[j].raised}
    IN  IF bad # {} THEN Raise(each[CHOOSE j \in bad : \A m \in bad : j <= m].msg)
        ELSE Ok([j \in 1..Len(image.data) |-> each[j].val])

Missing == [exists |-> FALSE, loads |-> FALSE, artifact |-> None]

Corrupt == [exists |-> TRUE, loads |-> FALSE, artifact |-> None]

Stored(artifact) == [exists |-> TRUE, loads |-> TRUE, artifact |-> artifact]

\* _load_model logging the failure without raising it again
load_model_swallows(self, file) ==
    IF ~file.exists \/ ~file.loads THEN Ok(self)
    ELSE Ok([self EXCEPT !.model = file.artifact])

\* _load_model: sets self.model, or raises and leaves it None
load_model(self, file) ==
    IF ~file.exists THEN Raise("Model file not found")
    ELSE IF ~file.loads THEN Raise("File not found or not a valid model")
    ELSE Ok([self EXCEPT !.model = file.artifact])

\* ModelLoader(model_path): the object, or the exception of _load_model
ModelLoader(file) ==
    load_model([model |-> None, classes |-> Classes], file)

is_loaded(self) == self.model # None

get_classes(self) == self.classes

predict(self, image) ==
    IF ~is_loaded(self) THEN Raise("Model not loaded")
    ELSE LET predictions == Forward(self.model, image)
         IN  IF predictions.raised THEN predictions
             ELSE IF predictions.val = <<>> THEN Raise("index 0 is out of bounds")
             ELSE LET probs == predictions.val[1]
                      results == Zip(self.classes, probs)
                  IN  Ok(SortedDesc(results))

\* predict_top_k with the slice taken one entry too far
predict_top_k_one_more(self, image, k) ==
    LET all_predictions == predict(self, image)
    IN  IF all_predictions.raised THEN all_predictions
        ELSE Ok(SlicePrefix(all_predictions.val, k + 1))

predict_top_k(self, image, k) ==
    LET all_predictions == predict(self, image)
    IN  IF all_predictions.raised THEN all_predictions
        ELSE Ok(SlicePrefix(all_predictions.val, k))

-----------------------------------------------------------------------------
(* main.py: uploads, requests and responses *)

Garbage == [opens |-> FALSE, image |-> ImageT]

Encoded(image) == [opens |-> TRUE, image |-> image]

UpA == [filename |-> "a.jpg", content_type |-> "image/jpeg", body |-> Encoded(ImageA)]

UpB == [filename |-> "b.png", content_type |-> "image/png", body |-> Encoded(ImageB)]

UpC == [filename |-> "c.jpg", content_type |-> "image/jpg", body |-> Encoded(ImageC)]

UpPdf == [filename |-> "d.pdf", content_type |-> "application/pdf", body |-> Garbage]

UpBad == [filename |-> "e.png", content_type |-> "image/png", body |-> Garbage]

UpTrunc == [filename |-> "f.jpg", content_type |-> "image/jpeg", body |-> Encoded(ImageT)]

Uploads == {UpA, UpB, UpC, UpPdf, UpBad, UpTrunc}

\* Image.open(io.BytesIO(contents))
ImageOpen(contents) ==
    IF contents.opens THEN Ok(contents.image) ELSE Raise("cannot identify image file")

NoResponse == [status |-> 0, detail |-> <<>>, body |-> <<>>]

\* raise HTTPException(status_code, detail), as http_exception_handler renders it
HTTPException(status_code, detail) ==
    [status |-> status_code, detail |-> detail, body |-> <<>>]

\* a returned dict, sent with status 200
Returned(content) == [status |-> 200, detail |-> <<>>, body |-> <<content>>]

NewRequest ==
    [endpoint |-> "none", files |-> <<>>, pc |-> "idle", i |-> 0, results |-> <<>>,
     response |-> NoResponse, trace |-> <<>>, was_loaded |-> FALSE, arrived |-> "none"]

\* `model_loader is None or not model_loader.is_loaded()`
NotReady(ml) == ml = None \/ ~is_loaded(ml)

\* the type taken from the bytes instead of the declared content type
TypeAccepted_sniffed(file) == file.body.opens

\* `file.content_type in ["image/jpeg", "image/jpg", "image/png"]`
TypeAccepted(file) == file.content_type \in {"image/jpeg", "image/jpg", "image/png"}

\* the limit off by one
BatchTooLarge_eleven(files) == Len(files) > MAX_BATCH + 1

\* `len(files) > 10`
BatchTooLarge(files) == Len(files) > MAX_BATCH

\* The statements from `contents = await file.read()` (resumed) to top_class:
\* the stages run, and the predictions with their top item or the exception
Classify(file, ml, pp) ==
    LET image == ImageOpen(file.body)
        processed_image == preprocess(pp, image.val)
        predictions == predict(ml, processed_image.val)
        top_class == MaxItem(predictions.val)
    IN  IF image.raised
          THEN [stages |-> <<"read", "decode">>, out |-> image]
        ELSE IF processed_image.raised
          THEN [stages |-> <<"read", "decode", "preprocess">>, out |-> processed_image]
        ELSE IF predictions.raised
          THEN [stages |-> <<"read", "decode", "preprocess", "predict">>, out |-> predictions]
        ELSE IF top_class.raised
          THEN [stages |-> <<"read", "decode", "preprocess", "predict", "rank">>,
                out |-> top_class]
        ELSE [stages |-> <<"read", "decode", "preprocess", "predict", "rank">>,
              out |-> Ok([top |-> top_class.val, predictions |-> predictions.val])]

-----------------------------------------------------------------------------
(* GET /health and GET /classes *)

health_check(rq, ml) ==
    LET model_loaded == ml # None /\ is_loaded(ml)
    IN  [rq EXCEPT !.pc = "done",
            !.response = Returned(
                [status |-> IF model_loaded THEN "healthy" ELSE "unhealthy",
                 model_loaded |-> model_loaded,
                 classes |-> IF model_loaded THEN get_classes(ml) ELSE <<>>])]

classes_handler(rq, ml) ==
    IF ml = None
      THEN [rq EXCEPT !.pc = "done", !.trace = <<"ready">>,
               !.response = HTTPException(503, <<"Model not loaded">>)]
    ELSE [rq EXCEPT !.pc = "done", !.trace = <<"ready">>,
             !.response = Returned([classes |-> get_classes(ml),
                                    total |-> Len(get_classes(ml))])]

-----------------------------------------------------------------------------
(* POST /predict: three segments, cut at `await file.read()` and at
   `await file.close()` *)

predict_image_begin(rq, ml) ==
    LET file == rq.files[1]
    IN  IF NotReady(ml)
          THEN [rq EXCEPT !.pc = "done", !.trace = <<"ready">>,
                   !.response = HTTPException(503, <<"Model not loaded">>)]
        ELSE IF ~TypeAccepted(file)
          THEN [rq EXCEPT !.pc = "done", !.trace = <<"ready", "ctype">>,
                   !.response = HTTPException(400,
                       <<"Invalid file type: ", file.content_type,
                         ". Only JPEG and PNG are supported.">>)]
        ELSE [rq EXCEPT !.pc = "read", !.trace = <<"ready", "ctype">>]

\* predict_image answering a decode failure as a client error
predict_image_read_decode_400(rq, ml, pp) ==
    LET file == rq.files[1]
        done == Classify(file, ml, pp)
    IN  IF done.out.raised
          THEN [rq EXCEPT !.pc = "close", !.trace = @ \o done.stages,
                   !.response = HTTPException(
                       IF ImageOpen(file.body).raised THEN 400 ELSE 500,
                       <<"Error processing image: ", done.out.msg>>)]
        ELSE [rq EXCEPT !.pc = "close", !.trace = @ \o done.stages,
                 !.response = Returned(
                     [filename |-> file.filename,
                      class |-> done.out.val.top[1],
                      confidence |-> done.out.val.top[2],
                      predictions |-> done.out.val.predictions])]

predict_image_read(rq, ml, pp) ==
    LET file == rq.files[1]
        done == Classify(file, ml, pp)
    IN  IF done.out.raised
          THEN [rq EXCEPT !.pc = "close", !.trace = @ \o done.stages,
                   !.response = HTTPException(500,
                       <<"Error processing image: ", done.out.msg>>)]
        ELSE [rq EXCEPT !.pc = "close", !.trace = @ \o done.stages,
                 !.response = Returned(
                     [filename |-> file.filename,
                      class |-> done.out.val.top[1],
                      confidence |-> done.out.val.top[2],
                      predictions |-> done.out.val.predictions])]

predict_image_close(rq) == [rq EXCEPT !.pc = "done", !.trace = @ \o <<"close">>]

-----------------------------------------------------------------------------
(* POST /predict-batch: per file one segment up to `await file.read()` or,
   for a refused type, up to `await file.close()`, one from the read to the
   close, and one from the close into the next file or the return *)

\* the loop going on to the next file without recording a refused type
next_item_skips(rq) ==
    IF rq.i > Len(rq.files)
      THEN [rq EXCEPT !.pc = "done",
               !.response = Returned([total |-> Len(rq.results), results |-> rq.results])]
    ELSE LET file == rq.files[rq.i]
         IN  IF ~TypeAccepted(file)
               THEN [rq EXCEPT !.pc = "close", !.trace = @ \o <<"ctype">>]
             ELSE [rq EXCEPT !.pc = "read", !.trace = @ \o <<"ctype">>]

\* the top of `for file in files:` for file rq.i, or the return after the loop
next_item(rq) ==
    IF rq.i > Len(rq.files)
      THEN [rq EXCEPT !.pc = "done",
               !.response = Returned([total |-> Len(rq.results), results |-> rq.results])]
    ELSE LET file == rq.files[rq.i]
         IN  IF ~TypeAccepted(file)
               THEN [rq EXCEPT !.pc = "close", !.trace = @ \o <<"ctype">>,
                        !.results = Append(@,
                            [filename |-> file.filename,
                             error |-> <<"Invalid file type: ", file.content_type>>])]
             ELSE [rq EXCEPT !.pc = "read", !.trace = @ \o <<"ctype">>]

predict_batch_begin(rq, ml) ==
    IF NotReady(ml)
      THEN [rq EXCEPT !.pc = "done", !.trace = <<"ready">>,
               !.response = HTTPException(503, <<"Model not loaded">>)]
    ELSE IF BatchTooLarge(rq.files)
      THEN [rq EXCEPT !.pc = "done", !.trace = <<"ready", "size">>,
               !.response = HTTPException(400, <<"Maximum 10 images per batch">>)]
    ELSE next_item([rq EXCEPT !.trace = <<"ready", "size">>, !.results = <<>>, !.i = 1])

\* the loop body without its own try: an exception ends the request
predict_batch_read_aborts(rq, ml, pp) ==
    LET file == rq.files[rq.i]
        done == Classify(file, ml, pp)
    IN  IF done.out.raised
          THEN [rq EXCEPT !.pc = "done", !.trace = @ \o done.stages,
                   !.response = HTTPException(500, <<"Internal server error">>)]
        ELSE [rq EXCEPT !.pc = "close", !.trace = @ \o done.stages,
                 !.results = Append(@,
                     [filename |-> file.filename,
                      class |-> done.out.val.top[1],
                      confidence |-> done.out.val.top[2],
                      predictions |-> done.out.val.predictions])]

predict_batch_read(rq, ml, pp) ==
    LET file == rq.files[rq.i]
        done == Classify(file, ml, pp)
    IN  IF done.out.raised
          THEN [rq EXCEPT !.pc = "close", !.trace = @ \o done.stages,
                   !.results = Append(@, [filename |-> file.filename,
                                          error |-> <<done.out.msg>>])]
        ELSE [rq EXCEPT !.pc = "close", !.trace = @ \o done.stages,
                 !.results = Append(@,
                     [filename |-> file.filename,
                      class |-> done.out.val.top[1],
                      confidence |-> done.out.val.top[2],
                      predictions |-> done.out.val.predictions])]

predict_batch_close(rq) ==
    next_item([rq EXCEPT !.i = @ + 1, !.trace = @ \o <<"close">>])

-----------------------------------------------------------------------------
(* lifespan: the startup half, which runs without an await *)

lifespan(file) ==
    LET made == ModelLoader(file)
    IN  IF made.raised
          THEN [phase |-> "failed", model_loader |-> None, preprocessor |-> None]
        ELSE [phase |-> "up", model_loader |-> made.val,
              preprocessor |-> ImagePreprocessor(<<IMAGE_SIDE, IMAGE_SIDE>>)]

-----------------------------------------------------------------------------
(* The server as a state machine *)

Reqs == {"r1", "r2"}

Disks == {Missing, Corrupt, Stored(Landscape)}

SeqsUpTo(S, n) == UNION {[1..m -> S] : m \in 0..n}

Fill(p) == [j \in 1..p |-> UpA]

\* the batches of the first client: a free part, then none, MAX_BATCH - 1 or
\* MAX_BATCH more files
Batches ==
    {m \o Fill(p) : m \in SeqsUpTo(Uploads, MaxMixed), p \in {0, MAX_BATCH - 1, MAX_BATCH}}
        \ {<<>>}

TrafficUploads == {UpB, UpC, UpPdf}

BatchMenu(r) ==
    IF r = "r1" THEN Batches ELSE SeqsUpTo(TrafficUploads, MaxTraffic) \ {<<>>}

FileMenu(r) == IF r = "r1" THEN Uploads ELSE TrafficUploads

\* the request as the handler is entered
Arrived(endpoint, files) ==
    [NewRequest EXCEPT !.endpoint = endpoint, !.files = files,
        !.was_loaded = (model_loader # None /\ is_loaded(model_loader)),
        !.arrived = phase]

Init ==
    /\ disk \in Disks
    /\ phase = "init"
    /\ model_loader = None
    /\ preprocessor = None
    /\ req = [r \in Reqs |-> NewRequest]
    /\ call = [fn |-> "none"]

Startup ==
    /\ phase = "init"
    /\ LET up == lifespan(disk)
       IN  /\ phase' = up.phase
           /\ model_loader' = up.model_loader
           /\ preprocessor' = up.preprocessor
    /\ UNCHANGED <<disk, req, call>>

Health(r) ==
    /\ req[r].pc = "idle"
    /\ req' = [req EXCEPT ![r] = health_check(Arrived("health", <<>>), model_loader)]
    /\ UNCHANGED <<disk, phase, model_loader, preprocessor, call>>

\* /classes handing out the runtime's own list and a caller shortening it
GetClasses_pops(r) ==
    /\ req[r].pc = "idle"
    /\ req' = [req EXCEPT ![r] = classes_handler(Arrived("classes", <<>>), model_loader)]
    /\ model_loader' = IF model_loader = None THEN None
                       ELSE [model_loader EXCEPT !.classes = Tail(@)]
    /\ UNCHANGED <<disk, phase, preprocessor, call>>

GetClasses(r) ==
    /\ req[r].pc = "idle"
    /\ req' = [req EXCEPT ![r] = classes_handler(Arrived("classes", <<>>), model_loader)]
    /\ UNCHANGED <<disk, phase, model_loader, preprocessor, call>>

PredictBegin(r) ==
    /\ req[r].pc = "idle"
    /\ \E file \in FileMenu(r) :
         req' = [req EXCEPT ![r] =
                    predict_image_begin(Arrived("predict", <<file>>), model_loader)]
    /\ UNCHANGED <<disk, phase, model_loader, preprocessor, call>>

PredictRead(r) ==
    /\ req[r].endpoint = "predict"
    /\ req[r].pc = "read"
    /\ req' = [req EXCEPT ![r] = predict_image_read(req[r], model_loader, preprocessor)]
    /\ UNCHANGED <<disk, phase, model_loader, preprocessor, call>>

PredictClose(r) ==
    /\ req[r].endpoint = "predict"
    /\ req[r].pc = "close"
    /\ req' = [req EXCEPT ![r] = predict_image_close(req[r])]
    /\ UNCHANGED <<disk, phase, model_loader, preprocessor, call>>

BatchBegin(r) ==
    /\ req[r].pc = "idle"
    /\ \E files \in BatchMenu(r) :
         req' = [req EXCEPT ![r] =
                    predict_batch_begin(Arrived("batch", files), model_loader)]
    /\ UNCHANGED <<disk, phase, model_loader, preprocessor, call>>

BatchRead(r) ==
    /\ req[r].endpoint = "batch"
    /\ req[r].pc = "read"
    /\ req' = [req EXCEPT ![r] = predict_batch_read(req[r], model_loader, preprocessor)]
    /\ UNCHANGED <<disk, phase, model_loader, preprocessor, call>>

BatchClose(r) ==
    /\ req[r].endpoint = "batch"
    /\ req[r].pc = "close"
    /\ req' = [req EXCEPT ![r] = predict_batch_close(req[r])]
    /\ UNCHANGED <<disk, phase, model_loader, preprocessor, call>>

Next ==
    \/ Startup
    \/ \E r \in Reqs : Health(r)
    \/ \E r \in Reqs : GetClasses(r)
    \/ \E r \in Reqs : PredictBegin(r)
    \/ \E r \in Reqs : PredictRead(r)
    \/ \E r \in Reqs : PredictClose(r)
    \/ \E r \in Reqs : BatchBegin(r)
    \/ \E r \in Reqs : BatchRead(r)
    \/ \E r \in Reqs : BatchClose(r)

Spec == Init /\ [][Next]_vars

-----------------------------------------------------------------------------
(* A request served on its own: the handler's segments run back to back *)

Begin(rq, ml) ==
    CASE rq.endpoint = "health" -> health_check(rq, ml)
      [] rq.endpoint = "classes" -> classes_handler(rq, ml)
      [] rq.endpoint = "predict" -> predict_image_begin(rq, ml)
      [] rq.endpoint = "batch" -> predict_batch_begin(rq, ml)

Advance(rq, ml, pp) ==
    CASE rq.endpoint = "predict" /\ rq.pc = "read" -> predict_image_read(rq, ml, pp)
      [] rq.endpoint = "predict" /\ rq.pc = "close" -> predict_image_close(rq)
      [] rq.endpoint = "batch" /\ rq.pc = "read" -> predict_batch_read(rq, ml, pp)
      [] rq.endpoint = "batch" /\ rq.pc = "close" -> predict_batch_close(rq)

RECURSIVE Finish(_, _, _)
Finish(rq, ml, pp) == IF rq.pc = "done" THEN rq ELSE Finish(Advance(rq, ml, pp), ml, pp)

\* the response to the request when no other request is in flight
Alone(endpoint, files, ml, pp) ==
    Finish(Begin([NewRequest EXCEPT !.endpoint = endpoint, !.files = files,
                      !.was_loaded = (ml # None /\ is_loaded(ml))], ml),
           ml, pp).response

-----------------------------------------------------------------------------
(* Claims about the server *)

Remove(seq, i) == SubSeq(seq, 1, i - 1) \o SubSeq(seq, i + 1, Len(seq))

Ran(rq, stage) == \E j \in 1..Len(rq.trace) : rq.trace[j] = stage

JpegOrPng == {"image/jpeg", "image/jpg", "image/png"}

IsPrefix(a, b) == Len(a) <= Len(b) /\ SubSeq(b, 1, Len(a)) = a

\* the item fails: refused type, decode failure, preprocess or predict exception
Fails(file) ==
    \/ file.content_type \notin JpegOrPng
    \/ ImageOpen(file.body).raised
    \/ preprocess(preprocessor, ImageOpen(file.body).val).raised
    \/ predict(model_loader,
               preprocess(preprocessor, ImageOpen(file.body).val).val).raised

ServedBatch(r) ==
    /\ req[r].endpoint = "batch"
    /\ req[r].was_loaded
    /\ Len(req[r].files) <= 10

\* C1: in a batch of at most 10 files with the model loaded, a failing item
\* never ends the batch: its slot holds {filename, error} with its own
\* filename, and the other slots hold what the batch without that item yields.
C1_FailureIsolated ==
    \A r \in Reqs : ServedBatch(r) =>
        /\ req[r].response.status \in {0, 200}
        /\ req[r].pc = "done" =>
             /\ req[r].response.status = 200
             /\ \A i \in 1..Len(req[r].files) : Fails(req[r].files[i]) =>
                  LET results == req[r].response.body[1].results
                      rest == Alone("batch", Remove(req[r].files, i),
                                    model_loader, preprocessor)
                  IN  /\ i <= Len(results)
                      /\ DOMAIN results[i] = {"filename", "error"}
                      /\ results[i].filename = req[r].files[i].filename
                      /\ Remove(results, i) = rest.body[1].results

\* a batch in which a failing item precedes one that is classified
C1_Witness ==
    \E r \in Reqs :
        /\ ServedBatch(r)
        /\ req[r].pc = "done"
        /\ \E i, j \in 1..Len(req[r].files) :
             /\ i < j
             /\ Fails(req[r].files[i])
             /\ "class" \in DOMAIN req[r].response.body[1].results[j]

\* C2: a batch of N <= 10 files with the model loaded is answered with
\* total = N and N results, the i-th being the outcome of the i-th file.
C2_BatchTotalAndOrder ==
    \A r \in Reqs : (ServedBatch(r) /\ req[r].pc = "done") =>
        LET n == Len(req[r].files)
            answer == req[r].response
        IN  /\ answer.status = 200
            /\ answer.body[1].total = n
            /\ Len(answer.body[1].results) = n
            /\ \A i \in 1..n :
                 <<answer.body[1].results[i]>> =
                     Alone("batch", <<req[r].files[i]>>,
                           model_loader, preprocessor).body[1].results

\* a full batch of 10 with both kinds of outcome
C2_Witness ==
    \E r \in Reqs :
        /\ ServedBatch(r)
        /\ req[r].pc = "done"
        /\ Len(req[r].files) = 10
        /\ "error" \in DOMAIN req[r].response.body[1].results[1]
        /\ "class" \in DOMAIN req[r].response.body[1].results[10]

\* C3: a batch of more than 10 files with the model loaded ends with 400 for
\* the whole batch before any file is read, decoded, preprocessed or
\* predicted, and without per-item results.
C3_OversizeBatchRejected ==
    \A r \in Reqs :
        (req[r].endpoint = "batch" /\ req[r].was_loaded /\ Len(req[r].files) > 10) =>
            /\ req[r].pc = "done"
            /\ req[r].response = HTTPException(400, <<"Maximum 10 images per batch">>)
            /\ req[r].results = <<>>
            /\ req[r].trace = <<"ready", "size">>

C3_Witness ==
    \E r \in Reqs :
        /\ req[r].endpoint = "batch"
        /\ req[r].was_loaded
        /\ Len(req[r].files) = 11
        /\ req[r].response.status = 400

\* C4: on /predict with the model loaded a declared type other than JPEG or
\* PNG ends with 400 and nothing is read, decoded, preprocessed or
\* predicted; a JPEG or PNG type is never refused with 400.
C4_OnlyJpegPngAccepted ==
    \A r \in Reqs : (req[r].endpoint = "predict" /\ req[r].was_loaded) =>
        IF req[r].files[1].content_type \in JpegOrPng
          THEN req[r].response.status # 400
        ELSE /\ req[r].pc = "done"
             /\ req[r].response.status = 400
             /\ req[r].trace = <<"ready", "ctype">>
             /\ \A stage \in {"read", "decode", "preprocess", "predict", "rank"} :
                    ~Ran(req[r], stage)

C4_Witness ==
    \E r \in Reqs :
        /\ req[r].endpoint = "predict"
        /\ req[r].was_loaded
        /\ req[r].files[1].content_type = "application/pdf"
        /\ req[r].response.status = 400

\* C5: the runtime is never constructed but not loaded, and a request to
\* /predict, /predict-batch or /classes that arrives while it is not loaded
\* ends with 503 before any other check or stage.
C5_NotLoadedIs503 ==
    /\ model_loader # None => is_loaded(model_loader)
    /\ \A r \in Reqs :
         (req[r].endpoint \in {"predict", "batch", "classes"} /\ ~req[r].was_loaded) =>
             /\ req[r].pc = "done"
             /\ req[r].response = HTTPException(503, <<"Model not loaded">>)
             /\ req[r].trace = <<"ready">>

\* /classes after a failed load, and a batch before startup
C5_Witness ==
    \E r, q \in Reqs :
        /\ req[r].endpoint = "classes"
        /\ req[r].arrived = "failed"
        /\ req[r].response.status = 503
        /\ req[q].endpoint = "batch"
        /\ req[q].arrived = "init"
        /\ req[q].response.status = 503

Stages == <<"ready", "ctype", "read", "decode", "preprocess", "predict", "rank">>

\* the trace without the closing of the file
Pipeline(rq) == SelectSeq(rq.trace, LAMBDA stage : stage # "close")

\* C6: a /predict request ends as Success (200), ClientError (400) or
\* ServerError (500, 503); its stages run in the order readiness, type,
\* decode, preprocess, predict, rank; past the two checks an exception in
\* decode, preprocess or predict ends it with 500 and the message, with no
\* later stage, and never as Success.
C6_PredictStagesAndFailure ==
    \A r \in Reqs : req[r].endpoint = "predict" =>
        /\ IsPrefix(Pipeline(req[r]), Stages)
        /\ req[r].pc = "done" => req[r].response.status \in {200, 400, 500, 503}
        /\ (/\ req[r].pc = "done"
            /\ req[r].was_loaded
            /\ req[r].files[1].content_type \in JpegOrPng) =>
             LET image == ImageOpen(req[r].files[1].body)
                 tensor == preprocess(preprocessor, image.val)
                 scores == predict(model_loader, tensor.val)
                 failed(e, last) ==
                     /\ req[r].response =
                            HTTPException(500, <<"Error processing image: ", e.msg>>)
                     /\ Pipeline(req[r]) = SubSeq(Stages, 1, last)
             IN  IF image.raised THEN failed(image, 4)
                 ELSE IF tensor.raised THEN failed(tensor, 5)
                 ELSE IF scores.raised THEN failed(scores, 6)
                 ELSE /\ req[r].response.status = 200
                      /\ Pipeline(req[r]) = Stages
                      /\ req[r].response.body[1].predictions = scores.val
                      /\ req[r].response.body[1].filename = req[r].files[1].filename

\* one request failed in decode and one in predict
C6_Witness ==
    \E r, q \in Reqs :
        /\ req[r].endpoint = "predict" /\ req[q].endpoint = "predict"
        /\ req[r].pc = "done" /\ req[q].pc = "done"
        /\ req[r].response.status = 500 /\ req[q].response.status = 500
        /\ Pipeline(req[r]) = SubSeq(Stages, 1, 4)
        /\ Pipeline(req[q]) = SubSeq(Stages, 1, 6)

\* C10: once startup has completed no request changes the Model Runtime, the
\* preprocessor or the Label Set, and every request that arrived after it is
\* answered as it would be answered alone.
C10_RequestsIndependent ==
    phase = "up" =>
        /\ model_loader = lifespan(disk).model_loader
        /\ preprocessor = lifespan(disk).preprocessor
        /\ get_classes(model_loader) = Classes
        /\ \A r \in Reqs : (req[r].pc = "done" /\ req[r].arrived = "up") =>
               req[r].response =
                   Alone(req[r].endpoint, req[r].files,
                         lifespan(disk).model_loader, lifespan(disk).preprocessor)

\* a batch answered while another batch is between two of its files
C10_Witness ==
    \E r, q \in Reqs :
        /\ r # q
        /\ req[r].arrived = "up" /\ req[q].arrived = "up"
        /\ req[r].endpoint = "batch" /\ req[q].endpoint = "batch"
        /\ req[r].pc = "done" /\ req[r].response.status = 200
        /\ Len(req[r].files) = 2
        /\ req[q].pc = "read" /\ req[q].i = 2

-----------------------------------------------------------------------------
(* ModelLoader.predict and predict_top_k on their own: the server has started
   with an artifact that returns an arbitrary score vector *)

Vectors == UNION {[1..n -> 0..MaxScore] : n \in (Len(Classes) - 1)..MaxOut}

Ks == (0 - MaxK)..MaxK

Started(file) ==
    /\ disk = file
    /\ phase = lifespan(file).phase
    /\ model_loader = lifespan(file).model_loader
    /\ preprocessor = lifespan(file).preprocessor
    /\ req = [r \in Reqs |-> NewRequest]

InitPredict ==
    /\ \E probs \in Vectors : Started(Stored(ArtifactReturning(probs)))
    /\ call = [fn |-> "none", k |-> 0, result |-> Ok(<<>>)]

\* the tensor the calls are made with
Tensor == preprocess(preprocessor, ImageA).val

\* the score vector the artifact returns for it
Probs == Forward(model_loader.model, Tensor).val[1]

CallPredict ==
    /\ call.fn = "none"
    /\ call' = [fn |-> "predict", k |-> 0, result |-> predict(model_loader, Tensor)]
    /\ UNCHANGED <<disk, phase, model_loader, preprocessor, req>>

CallPredictTopK ==
    /\ call.fn = "none"
    /\ \E k \in Ks :
         call' = [fn |-> "predict_top_k", k |-> k,
                  result |-> predict_top_k(model_loader, Tensor, k)]
    /\ UNCHANGED <<disk, phase, model_loader, preprocessor, req>>

NextPredict == CallPredict \/ CallPredictTopK

SpecPredict == InitPredict /\ [][NextPredict]_vars

\* the place of a label in the Label Set
Place(label) == CHOOSE j \in 1..Len(Classes) : Classes[j] = label

\* items is ordered by non-increasing score, equal scores in Label Set order
StableDescending(items) ==
    \A a, b \in 1..Len(items) :
        a < b => \/ items[a][2] > items[b][2]
                 \/ items[a][2] = items[b][2] /\ Place(items[a][1]) < Place(items[b][1])

\* C8: whatever score vector the model returns, predict returns exactly the
\* six labels of the Label Set, each with its score, ordered by
\* non-increasing score with equal scores in Label Set order.
C8_PredictSixLabelsSorted ==
    call.fn = "predict" =>
        /\ ~call.result.raised
        /\ Len(call.result.val) = Len(Classes)
        /\ {call.result.val[j][1] : j \in 1..Len(call.result.val)}
               = {Classes[j] : j \in 1..Len(Classes)}
        /\ \A j \in 1..Len(call.result.val) :
               call.result.val[j][2] = Probs[Place(call.result.val[j][1])]
        /\ StableDescending(call.result.val)

\* What holds of predict for every score vector: the labels are the first
\* min(6, len(probs)) of the Label Set, each with its score, in stable
\* descending order.
PredictSortedZip ==
    call.fn = "predict" =>
        /\ ~call.result.raised
        /\ {call.result.val[j][1] : j \in 1..Len(call.result.val)}
               = {Classes[j] : j \in 1..Min(Len(Classes), Len(Probs))}
        /\ Len(call.result.val) = Min(Len(Classes), Len(Probs))
        /\ \A j \in 1..Len(call.result.val) :
               call.result.val[j][2] = Probs[Place(call.result.val[j][1])]
        /\ StableDescending(call.result.val)

\* C7 as stated: predict_top_k(tensor, k) returns exactly min(k, 6) entries,
\* the first of predict's output in the same order, for every k.
C7_TopKMinKSix ==
    call.fn = "predict_top_k" =>
        /\ ~call.result.raised
        /\ Len(call.result.val) = Min(call.k, 6)
        /\ \A j \in 1..Len(call.result.val) :
               call.result.val[j] = predict(model_loader, Tensor).val[j]

\* C7 as amended: with n the number of entries predict returns (6 when the
\* model returns at least six scores, otherwise the number of scores),
\* predict_top_k(tensor, k) returns the first min(k, n) entries of predict's
\* output for k >= 0 and its first max(n + k, 0) entries for k < 0.
C7_TopKPrefix ==
    call.fn = "predict_top_k" =>
        LET all == predict(model_loader, Tensor).val
            n == Len(all)
        IN  /\ ~call.result.raised
            /\ n = Min(6, Len(Probs))
            /\ Len(call.result.val) =
                   IF call.k >= 0 THEN Min(call.k, n) ELSE Max(n + call.k, 0)
            /\ \A j \in 1..Len(call.result.val) : call.result.val[j] = all[j]

\* a negative k that leaves entries, and a k beyond the six labels
C7_Witness ==
    /\ call.fn = "predict_top_k"
    /\ call.k = 0 - 1
    /\ Len(call.result.val) = 5
    /\ Len(Probs) > 6

-----------------------------------------------------------------------------
(* ImagePreprocessor.preprocess and preprocess_batch on their own *)

ImageLists == SeqsUpTo(Images, MaxImages)

InitPreprocess ==
    /\ Started(Stored(Landscape))
    /\ \E images \in ImageLists :
         call = [fn |-> "none", images |-> images, result |-> Ok(<<>>)]

CallPreprocess ==
    /\ call.fn = "none"
    /\ \E j \in 1..Len(call.images) :
         call' = [fn |-> "preprocess", images |-> <<call.images[j]>>,
                  result |-> preprocess(preprocessor, call.images[j])]
    /\ UNCHANGED <<disk, phase, model_loader, preprocessor, req>>

CallPreprocessBatch ==
    /\ call.fn = "none"
    /\ call' = [call EXCEPT !.fn = "preprocess_batch",
                            !.result = preprocess_batch(preprocessor, call.images)]
    /\ UNCHANGED <<disk, phase, model_loader, preprocessor, req>>

NextPreprocess == CallPreprocess \/ CallPreprocessBatch

SpecPreprocess == InitPreprocess /\ [][NextPreprocess]_vars

\* C9: for every list of N >= 0 images that preprocess accepts,
\* preprocess_batch returns one tensor of shape (N, H, W, 3) whose i-th slice
\* is preprocess(image i) without its batch axis.
C9_BatchShapeAndSlices ==
    (/\ call.fn = "preprocess_batch"
     /\ \A j \in 1..Len(call.images) : ~preprocess(preprocessor, call.images[j]).raised)
    => /\ ~call.result.raised
       /\ call.result.val.shape = <<Len(call.images), IMAGE_SIDE, IMAGE_SIDE, 3>>
       /\ \A j \in 1..Len(call.images) :
              /\ call.result.val.data[j] = preprocess(preprocessor, call.images[j]).val.data[1]
              /\ Tail(call.result.val.shape)
                     = Tail(preprocess(preprocessor, call.images[j]).val.shape)

\* What holds of preprocess_batch for every list of at least one image.
PreprocessBatchNonEmpty ==
    (/\ call.fn = "preprocess_batch"
     /\ call.images # <<>>
     /\ \A j \in 1..Len(call.images) : ~preprocess(preprocessor, call.images[j]).raised)
    => /\ ~call.result.raised
       /\ call.result.val.shape = <<Len(call.images), IMAGE_SIDE, IMAGE_SIDE, 3>>
       /\ call.result.val.dtype = "float32"
       /\ \A j \in 1..Len(call.images) :
              call.result.val.data[j] = preprocess(preprocessor, call.images[j]).val.data[1]

=============================================================================
